---- MODULE Spec2Model ----
(***************************************************************************)
(* Model of body_recomposition_tracker.py: one run of main().              *)
(*                                                                         *)
(* Numbers.  Python floats are modelled as exact rationals <<num, den>>    *)
(* in lowest terms with den > 0, so that equality of two values is         *)
(* equality of the pairs.  Inputs are finite decimal literals (digits,     *)
(* an optional sign and an optional point); exponents, "nan" and "inf"     *)
(* are outside the input alphabet of the model.  Text typed at a prompt    *)
(* is a sequence of one-character strings.                                 *)
(*                                                                         *)
(* Output.  stdout holds only the messages that report an outcome (input   *)
(* error, feasibility failure, advice, success); prompts and the menu are  *)
(* left out.  The file system is the directory out/ and the file           *)
(* out/body_recomposition_targets.csv.                                     *)
(***************************************************************************)
EXTENDS Integers, Sequences, FiniteSets, TLC

VARIABLES pc, consumed, params, max_daily_change, daily_change, valid,
          weights, body_fats, muscles, stdout, exitCode,
          dirExists, csvFile, fs0

vars == <<pc, consumed, params, max_daily_change, daily_change, valid,
          weights, body_fats, muscles, stdout, exitCode,
          dirExists, csvFile, fs0>>

-----------------------------------------------------------------------------
(* Bounds of the model *)

MaxDays == 3

MaxAge == 60

-----------------------------------------------------------------------------
(* Exact arithmetic standing for float arithmetic *)

AbsInt(a) == IF a < 0 THEN -a ELSE a

RECURSIVE GCD(_, _)
GCD(a, b) == IF b = 0 THEN a ELSE GCD(b, a % b)

Rat(n, d) ==
    LET s == IF d < 0 THEN -1 ELSE 1
        g == GCD(AbsInt(n), AbsInt(d))
    IN  <<(s * n) \div g, (s * d) \div g>>

Zero == <<0, 1>>

RatAdd(x, y) == Rat(x[1] * y[2] + y[1] * x[2], x[2] * y[2])

RatSub(x, y) == Rat(x[1] * y[2] - y[1] * x[2], x[2] * y[2])

RatMul(x, y) == Rat(x[1] * y[1], x[2] * y[2])

RatDivInt(x, n) == Rat(x[1], x[2] * n)

RatMulInt(x, n) == Rat(x[1] * n, x[2])

RatNeg(x) == <<-x[1], x[2]>>

RatAbs(x) == <<AbsInt(x[1]), x[2]>>

RatLT(x, y) == x[1] * y[2] < y[1] * x[2]

RatGT(x, y) == RatLT(y, x)

RatLE(x, y) == ~RatLT(y, x)

-----------------------------------------------------------------------------
(* Text: str.strip, str.upper, int(), float(), format(x, ".Nf") *)

Digits == <<"0", "1", "2", "3", "4", "5", "6", "7", "8", "9">>

IsDigit(c) == \E i \in 1..10 : Digits[i] = c

DigitVal(c) == (CHOOSE i \in 1..10 : Digits[i] = c) - 1

LowerLetters == <<"a", "b", "c", "d", "e", "f", "g", "h", "i", "j", "k", "l", "m",
                  "n", "o", "p", "q", "r", "s", "t", "u", "v", "w", "x", "y", "z">>

UpperLetters == <<"A", "B", "C", "D", "E", "F", "G", "H", "I", "J", "K", "L", "M",
                  "N", "O", "P", "Q", "R", "S", "T", "U", "V", "W", "X", "Y", "Z">>

UpperChar(c) ==
    IF \E i \in 1..26 : LowerLetters[i] = c
    THEN UpperLetters[CHOOSE i \in 1..26 : LowerLetters[i] = c]
    ELSE c

Upper(s) == [i \in 1..Len(s) |-> UpperChar(s[i])]

RECURSIVE LStrip(_)
LStrip(s) == IF s # <<>> /\ Head(s) = " " THEN LStrip(Tail(s)) ELSE s

RECURSIVE RStrip(_)
RStrip(s) ==
    IF s # <<>> /\ s[Len(s)] = " " THEN RStrip(SubSeq(s, 1, Len(s) - 1)) ELSE s

Strip(s) == RStrip(LStrip(s))

RECURSIVE Pow10(_)
Pow10(k) == IF k = 0 THEN 1 ELSE 10 * Pow10(k - 1)

RECURSIVE DigitsValue(_)
DigitsValue(s) ==
    IF s = <<>> THEN 0 ELSE 10 * DigitsValue(SubSeq(s, 1, Len(s) - 1)) + DigitVal(s[Len(s)])

AllDigits(s) == \A i \in 1..Len(s) : IsDigit(s[i])

HasSign(t) == t # <<>> /\ Head(t) \in {"+", "-"}

Unsigned(t) == IF HasSign(t) THEN Tail(t) ELSE t

SignOf(t) == IF t # <<>> /\ Head(t) = "-" THEN -1 ELSE 1

\* int(text): [ok |-> FALSE] stands for ValueError
ParseInt(s) ==
    LET t == Strip(s)
        b == Unsigned(t)
    IN  IF b # <<>> /\ AllDigits(b)
        THEN [ok |-> TRUE, val |-> SignOf(t) * DigitsValue(b)]
        ELSE [ok |-> FALSE, val |-> 0]

\* float(text) on decimal literals: [ok |-> FALSE] stands for ValueError
ParseFloat(s) ==
    LET t == Strip(s)
        b == Unsigned(t)
        points == {i \in 1..Len(b) : b[i] = "."}
        p == IF points = {} THEN Len(b) + 1 ELSE CHOOSE i \in points : TRUE
        whole == SubSeq(b, 1, p - 1)
        frac == SubSeq(b, p + 1, Len(b))
    IN  IF /\ Cardinality(points) <= 1
           /\ AllDigits(whole) /\ AllDigits(frac)
           /\ Len(whole) + Len(frac) >= 1
        THEN [ok |-> TRUE,
              val |-> Rat(SignOf(t) * (DigitsValue(whole) * Pow10(Len(frac)) + DigitsValue(frac)),
                          Pow10(Len(frac)))]
        ELSE [ok |-> FALSE, val |-> Zero]

\* format(x, ".<places>f"): the sign and the count of 10^-places units, the
\* nearest one to |x|, ties to the even count
FormatFixed(x, places) ==
    LET a == AbsInt(x[1]) * Pow10(places)
        q == a \div x[2]
        r == a % x[2]
        up == 2 * r > x[2] \/ (2 * r = x[2] /\ q % 2 = 1)
    IN  [neg |-> x[1] < 0, units |-> IF up THEN q + 1 ELSE q]

-----------------------------------------------------------------------------
(* What may be typed at the prompts *)

RECURSIVE IntText(_)
IntText(n) ==
    IF n < 0 THEN <<"-">> \o IntText(-n)
    ELSE IF n < 10 THEN <<Digits[n + 1]>>
    ELSE Append(IntText(n \div 10), Digits[(n % 10) + 1])

\* the text of h hundredths, h >= 0, with two decimals
DecText(h) ==
    IntText(h \div 100) \o <<".", Digits[((h \div 10) % 10) + 1], Digits[(h % 10) + 1]>>

DaysInputs ==
    {IntText(n) : n \in 0..MaxDays} \cup {<<"1", "0">>, <<"x">>, <<"1", ".", "5">>}

WeightInitInputs == {IntText(80), DecText(7993)}

WeightFinalInputs == {IntText(80), DecText(7993), DecText(8010), IntText(75), <<"a", "b", "c">>}

BfInitInputs == {IntText(20), <<>>}

BfFinalInputs == {IntText(20), DecText(1989), <<" ">> \o DecText(1975)}

MuscleInitInputs == {IntText(30)}

MuscleFinalInputs == {IntText(30), DecText(3003), DecText(3030), <<"3", "0", "k", "g">>}

ExperienceInputs == {IntText(n) : n \in 0..5} \cup {<<"o", "n", "e">>}

GenderInputs == {<<"M">>, <<" ", "f", " ">>, <<"X">>, <<>>}

AgeInputs == {IntText(0), IntText(20), IntText(30), IntText(MaxAge), <<"3", "0", ".", "5">>}

-----------------------------------------------------------------------------
(* The pure functions *)

\* faulty variant: each age boundary falls in the bracket that ends at it
calculate_progression_factors_ClosedBrackets(experience_level, gender, age) ==
    LET base_weight == CASE experience_level = 1 -> Rat(7, 100)
                         [] experience_level = 2 -> Rat(6, 100)
                         [] experience_level = 3 -> Rat(5, 100)
                         [] experience_level = 4 -> Rat(4, 100)
        base_bf == CASE experience_level = 1 -> Rat(14, 100)
                     [] experience_level = 2 -> Rat(13, 100)
                     [] experience_level = 3 -> Rat(12, 100)
                     [] experience_level = 4 -> Rat(10, 100)
        base_muscle == CASE experience_level = 1 -> Rat(7, 100)
                         [] experience_level = 2 -> Rat(6, 100)
                         [] experience_level = 3 -> Rat(5, 100)
                         [] experience_level = 4 -> Rat(4, 100)
        gender_multiplier == IF gender = <<"M">> THEN Rat(1, 1) ELSE Rat(9, 10)
        age_multiplier ==
            IF age <= 25 THEN Rat(1, 1)
            ELSE IF 25 < age /\ age <= 35 THEN Rat(95, 100)
            ELSE IF 35 < age /\ age <= 45 THEN Rat(90, 100)
            ELSE IF 45 < age /\ age <= 55 THEN Rat(85, 100)
            ELSE Rat(80, 100)
    IN  <<RatMul(RatMul(base_weight, gender_multiplier), age_multiplier),
          RatMul(RatMul(base_bf, gender_multiplier), age_multiplier),
          RatMul(RatMul(base_muscle, gender_multiplier), age_multiplier)>>

calculate_progression_factors(experience_level, gender, age) ==
    LET base_weight == CASE experience_level = 1 -> Rat(7, 100)
                         [] experience_level = 2 -> Rat(6, 100)
                         [] experience_level = 3 -> Rat(5, 100)
                         [] experience_level = 4 -> Rat(4, 100)
        base_bf == CASE experience_level = 1 -> Rat(14, 100)
                     [] experience_level = 2 -> Rat(13, 100)
                     [] experience_level = 3 -> Rat(12, 100)
                     [] experience_level = 4 -> Rat(10, 100)
        base_muscle == CASE experience_level = 1 -> Rat(7, 100)
                         [] experience_level = 2 -> Rat(6, 100)
                         [] experience_level = 3 -> Rat(5, 100)
                         [] experience_level = 4 -> Rat(4, 100)
        gender_multiplier == IF gender = <<"M">> THEN Rat(1, 1) ELSE Rat(9, 10)
        age_multiplier ==
            IF age < 25 THEN Rat(1, 1)
            ELSE IF 25 <= age /\ age < 35 THEN Rat(95, 100)
            ELSE IF 35 <= age /\ age < 45 THEN Rat(90, 100)
            ELSE IF 45 <= age /\ age < 55 THEN Rat(85, 100)
            ELSE Rat(80, 100)
    IN  <<RatMul(RatMul(base_weight, gender_multiplier), age_multiplier),
          RatMul(RatMul(base_bf, gender_multiplier), age_multiplier),
          RatMul(RatMul(base_muscle, gender_multiplier), age_multiplier)>>

\* faulty variant: is_loss is ignored, the change is always made negative
calculate_required_daily_change_AlwaysLoss(initial, final, n, is_loss) ==
    LET total_change == RatSub(final, initial)
        change == RatDivInt(total_change, n)
    IN  RatNeg(RatAbs(change))

\* faulty variant: the two branches on is_loss are exchanged
calculate_required_daily_change_SwappedSign(initial, final, n, is_loss) ==
    LET total_change == RatSub(final, initial)
        change == RatDivInt(total_change, n)
    IN  IF is_loss THEN RatAbs(change) ELSE RatNeg(RatAbs(change))

calculate_required_daily_change(initial, final, n, is_loss) ==
    LET total_change == RatSub(final, initial)
        change == RatDivInt(total_change, n)
    IN  IF is_loss THEN RatNeg(RatAbs(change)) ELSE RatAbs(change)

\* faulty variant: the muscle check is missing
validate_daily_changes_NoMuscleCheck(daily_weight_change, daily_bf_change, daily_muscle_change, weight_max, bf_max, muscle_max) ==
    IF RatGT(RatAbs(daily_weight_change), weight_max)
    THEN [result |-> FALSE,
          printed |-> <<[kind |-> "exceeds", metric |-> "weight",
                         required |-> FormatFixed(RatAbs(daily_weight_change), 4),
                         allowed |-> FormatFixed(weight_max, 4)]>>]
    ELSE IF RatGT(RatAbs(daily_bf_change), bf_max)
    THEN [result |-> FALSE,
          printed |-> <<[kind |-> "exceeds", metric |-> "body fat",
                         required |-> FormatFixed(RatAbs(daily_bf_change), 4),
                         allowed |-> FormatFixed(bf_max, 4)]>>]
    ELSE [result |-> TRUE, printed |-> <<>>]

\* faulty variant: the comparisons are >= instead of >
validate_daily_changes_GreaterOrEqual(daily_weight_change, daily_bf_change, daily_muscle_change, weight_max, bf_max, muscle_max) ==
    IF ~RatLT(RatAbs(daily_weight_change), weight_max)
    THEN [result |-> FALSE,
          printed |-> <<[kind |-> "exceeds", metric |-> "weight",
                         required |-> FormatFixed(RatAbs(daily_weight_change), 4),
                         allowed |-> FormatFixed(weight_max, 4)]>>]
    ELSE IF ~RatLT(RatAbs(daily_bf_change), bf_max)
    THEN [result |-> FALSE,
          printed |-> <<[kind |-> "exceeds", metric |-> "body fat",
                         required |-> FormatFixed(RatAbs(daily_bf_change), 4),
                         allowed |-> FormatFixed(bf_max, 4)]>>]
    ELSE IF ~RatLT(RatAbs(daily_muscle_change), muscle_max)
    THEN [result |-> FALSE,
          printed |-> <<[kind |-> "exceeds", metric |-> "muscle mass",
                         required |-> FormatFixed(RatAbs(daily_muscle_change), 4),
                         allowed |-> FormatFixed(muscle_max, 4)]>>]
    ELSE [result |-> TRUE, printed |-> <<>>]

\* result is the value returned, printed the line written to stdout before it
validate_daily_changes(daily_weight_change, daily_bf_change, daily_muscle_change, weight_max, bf_max, muscle_max) ==
    IF RatGT(RatAbs(daily_weight_change), weight_max)
    THEN [result |-> FALSE,
          printed |-> <<[kind |-> "exceeds", metric |-> "weight",
                         required |-> FormatFixed(RatAbs(daily_weight_change), 4),
                         allowed |-> FormatFixed(weight_max, 4)]>>]
    ELSE IF RatGT(RatAbs(daily_bf_change), bf_max)
    THEN [result |-> FALSE,
          printed |-> <<[kind |-> "exceeds", metric |-> "body fat",
                         required |-> FormatFixed(RatAbs(daily_bf_change), 4),
                         allowed |-> FormatFixed(bf_max, 4)]>>]
    ELSE IF RatGT(RatAbs(daily_muscle_change), muscle_max)
    THEN [result |-> FALSE,
          printed |-> <<[kind |-> "exceeds", metric |-> "muscle mass",
                         required |-> FormatFixed(RatAbs(daily_muscle_change), 4),
                         allowed |-> FormatFixed(muscle_max, 4)]>>]
    ELSE [result |-> TRUE, printed |-> <<>>]

\* faulty variant: the last value is left as the formula gives it
calculate_daily_targets_NoOverride(n, initial, final, change) ==
    [i \in 1..n |-> RatAdd(initial, RatMulInt(change, i - 1))]

\* faulty variant: the loop runs over days 1..n instead of 0..n-1
calculate_daily_targets_OneBased(n, initial, final, change) ==
    LET targets == [i \in 1..n |-> RatAdd(initial, RatMulInt(change, i))]
    IN  [targets EXCEPT ![n] = final]

\* the list after the loop over range(n), then targets[-1] = final
calculate_daily_targets(n, initial, final, change) ==
    LET targets == [i \in 1..n |-> RatAdd(initial, RatMulInt(change, i - 1))]
    IN  [targets EXCEPT ![n] = final]

Min(a, b) == IF a < b THEN a ELSE b

\* zip(days, weights, body_fats, muscles), each row formatted as written
csv_rows(days, ws, bfs, ms) ==
    [i \in 1..Min(Min(Len(days), Len(ws)), Min(Len(bfs), Len(ms))) |->
        <<days[i], FormatFixed(ws[i], 2), FormatFixed(bfs[i], 2), FormatFixed(ms[i], 2)>>]

Headers == <<"Day", "Weight (kgs)", "Body Fat (%)", "Muscle (kgs)">>

-----------------------------------------------------------------------------
(* The run of main() *)

\* the tuple get_user_input builds, in the order the values are read
n_days == params[1]
w_init == params[2]
w_final == params[3]
bf_init == params[4]
bf_final == params[5]
m_init == params[6]
m_final == params[7]
experience_level == params[8]
gender == params[9]
age == params[10]

OldFile == [exists |-> TRUE, rows |-> <<Headers, <<1, "stale">>>>]

NoFile == [exists |-> FALSE, rows |-> <<>>]

FileSystems ==
    {[dir |-> FALSE, file |-> NoFile], [dir |-> TRUE, file |-> NoFile],
     [dir |-> TRUE, file |-> OldFile]}

\* exitCode is -1 while the process runs
Init ==
    /\ pc = "n_days"
    /\ consumed = <<>>
    /\ params = <<>>
    /\ max_daily_change = <<>>
    /\ daily_change = <<>>
    /\ valid = "unset"
    /\ weights = <<>>
    /\ body_fats = <<>>
    /\ muscles = <<>>
    /\ stdout = <<>>
    /\ exitCode = -1
    /\ fs0 \in FileSystems
    /\ dirExists = fs0.dir
    /\ csvFile = fs0.file

computed == <<max_daily_change, daily_change, valid, weights, body_fats, muscles>>

files == <<dirExists, csvFile, fs0>>

\* except ValueError: print the error, exit(1)
InputError ==
    /\ stdout' = Append(stdout, [kind |-> "input_error"])
    /\ exitCode' = 1
    /\ pc' = "exited"
    /\ UNCHANGED params

Accept(value, next) ==
    /\ params' = Append(params, value)
    /\ pc' = next
    /\ UNCHANGED <<stdout, exitCode>>

ReadFloat(here, next, inputs) ==
    /\ pc = here
    /\ \E text \in inputs :
         /\ consumed' = Append(consumed, text)
         /\ LET r == ParseFloat(text)
            IN  IF r.ok THEN Accept(r.val, next) ELSE InputError
    /\ UNCHANGED <<computed, files>>

ReadDays ==
    /\ pc = "n_days"
    /\ \E text \in DaysInputs :
         /\ consumed' = Append(consumed, text)
         /\ LET r == ParseInt(text)
            IN  IF r.ok /\ ~(r.val < 1) THEN Accept(r.val, "w_init") ELSE InputError
    /\ UNCHANGED <<computed, files>>

ReadWInit == ReadFloat("w_init", "w_final", WeightInitInputs)

ReadWFinal == ReadFloat("w_final", "bf_init", WeightFinalInputs)

ReadBfInit == ReadFloat("bf_init", "bf_final", BfInitInputs)

ReadBfFinal == ReadFloat("bf_final", "m_init", BfFinalInputs)

ReadMInit == ReadFloat("m_init", "m_final", MuscleInitInputs)

ReadMFinal == ReadFloat("m_final", "experience_level", MuscleFinalInputs)

ReadExperience ==
    /\ pc = "experience_level"
    /\ \E text \in ExperienceInputs :
         /\ consumed' = Append(consumed, text)
         /\ LET r == ParseInt(text)
            IN  IF r.ok /\ r.val \in {1, 2, 3, 4}
                THEN Accept(r.val, "gender") ELSE InputError
    /\ UNCHANGED <<computed, files>>

ReadGender ==
    /\ pc = "gender"
    /\ \E text \in GenderInputs :
         /\ consumed' = Append(consumed, text)
         /\ LET g == Upper(Strip(text))
            IN  IF g \in {<<"M">>, <<"F">>} THEN Accept(g, "age") ELSE InputError
    /\ UNCHANGED <<computed, files>>

\* faulty variant: the check is age < 0, so age 0 passes
ReadAge_AcceptsZero ==
    /\ pc = "age"
    /\ \E text \in AgeInputs :
         /\ consumed' = Append(consumed, text)
         /\ LET r == ParseInt(text)
            IN  IF r.ok /\ ~(r.val < 0) THEN Accept(r.val, "factors") ELSE InputError
    /\ UNCHANGED <<computed, files>>

ReadAge ==
    /\ pc = "age"
    /\ \E text \in AgeInputs :
         /\ consumed' = Append(consumed, text)
         /\ LET r == ParseInt(text)
            IN  IF r.ok /\ ~(r.val <= 0) THEN Accept(r.val, "factors") ELSE InputError
    /\ UNCHANGED <<computed, files>>

\* Step 2
CalcFactors ==
    /\ pc = "factors"
    /\ max_daily_change' = calculate_progression_factors(experience_level, gender, age)
    /\ pc' = "required"
    /\ UNCHANGED <<consumed, params, daily_change, valid, weights, body_fats, muscles,
                   stdout, exitCode, files>>

\* Step 3
CalcRequired ==
    /\ pc = "required"
    /\ daily_change' =
         <<calculate_required_daily_change(w_init, w_final, n_days, RatLT(w_final, w_init)),
           calculate_required_daily_change(bf_init, bf_final, n_days, RatLT(bf_final, bf_init)),
           calculate_required_daily_change(m_init, m_final, n_days, RatLT(m_final, m_init))>>
    /\ pc' = "validate"
    /\ UNCHANGED <<consumed, params, max_daily_change, valid, weights, body_fats, muscles,
                   stdout, exitCode, files>>

\* Step 4
Validate ==
    /\ pc = "validate"
    /\ LET v == validate_daily_changes(daily_change[1], daily_change[2], daily_change[3],
                    max_daily_change[1], max_daily_change[2], max_daily_change[3])
       IN  IF v.result
           THEN /\ valid' = "True"
                /\ stdout' = stdout \o v.printed
                /\ pc' = "targets"
                /\ UNCHANGED exitCode
           ELSE /\ valid' = "False"
                /\ stdout' = stdout \o v.printed \o <<[kind |-> "adjust_goals"]>>
                /\ exitCode' = 1
                /\ pc' = "exited"
    /\ UNCHANGED <<consumed, params, max_daily_change, daily_change, weights, body_fats,
                   muscles, files>>

\* Step 5
CalcTargets ==
    /\ pc = "targets"
    /\ weights' = calculate_daily_targets(n_days, w_init, w_final, daily_change[1])
    /\ body_fats' = calculate_daily_targets(n_days, bf_init, bf_final, daily_change[2])
    /\ muscles' = calculate_daily_targets(n_days, m_init, m_final, daily_change[3])
    /\ pc' = "makedirs"
    /\ UNCHANGED <<consumed, params, max_daily_change, daily_change, valid,
                   stdout, exitCode, files>>

\* Step 6: os.makedirs(output_dir, exist_ok=True)
MakeDirs ==
    /\ pc = "makedirs"
    /\ dirExists' = TRUE
    /\ pc' = "generate_csv"
    /\ UNCHANGED <<consumed, params, computed, stdout, exitCode, csvFile, fs0>>

\* faulty variant: days is list(range(n_days)), 0 to n_days - 1
GenerateCsv_ZeroBasedDays ==
    /\ pc = "generate_csv"
    /\ dirExists
    /\ LET days == [i \in 1..n_days |-> i - 1]
       IN  csvFile' = [exists |-> TRUE,
                       rows |-> <<Headers>> \o csv_rows(days, weights, body_fats, muscles)]
    /\ stdout' = Append(stdout, [kind |-> "saved"])
    /\ exitCode' = 0
    /\ pc' = "done"
    /\ UNCHANGED <<consumed, params, computed, dirExists, fs0>>

\* Steps 7 and 8, and the return of main
GenerateCsv ==
    /\ pc = "generate_csv"
    /\ dirExists
    /\ LET days == [i \in 1..n_days |-> i]
       IN  csvFile' = [exists |-> TRUE,
                       rows |-> <<Headers>> \o csv_rows(days, weights, body_fats, muscles)]
    /\ stdout' = Append(stdout, [kind |-> "saved"])
    /\ exitCode' = 0
    /\ pc' = "done"
    /\ UNCHANGED <<consumed, params, computed, dirExists, fs0>>

Next ==
    \/ ReadDays
    \/ ReadWInit
    \/ ReadWFinal
    \/ ReadBfInit
    \/ ReadBfFinal
    \/ ReadMInit
    \/ ReadMFinal
    \/ ReadExperience
    \/ ReadGender
    \/ ReadAge
    \/ CalcFactors
    \/ CalcRequired
    \/ Validate
    \/ CalcTargets
    \/ MakeDirs
    \/ GenerateCsv

Spec == Init /\ [][Next]_vars

\* calculate_progression_factors alone, on every level, gender and age up to MaxAge
InitRates ==
    /\ pc = "factors"
    /\ consumed = <<>>
    /\ \E e \in {1, 2, 3, 4}, g \in {<<"M">>, <<"F">>}, a \in 1..MaxAge :
         params = <<1, Zero, Zero, Zero, Zero, Zero, Zero, e, g, a>>
    /\ max_daily_change = <<>>
    /\ daily_change = <<>>
    /\ valid = "unset"
    /\ weights = <<>>
    /\ body_fats = <<>>
    /\ muscles = <<>>
    /\ stdout = <<>>
    /\ exitCode = -1
    /\ fs0 = [dir |-> FALSE, file |-> NoFile]
    /\ dirExists = fs0.dir
    /\ csvFile = fs0.file

SpecRates == InitRates /\ [][CalcFactors]_vars

-----------------------------------------------------------------------------
(* Vocabulary of the properties *)

AllRead == Len(params) = 10

Initials == <<w_init, bf_init, m_init>>

Finals == <<w_final, bf_final, m_final>>

Trajectories == <<weights, body_fats, muscles>>

MetricNames == <<"weight", "body fat", "muscle mass">>

\* |(final - initial) / duration| of metric k
RequiredRate(k) == RatAbs(RatDivInt(RatSub(Finals[k], Initials[k]), n_days))

Bound(k) == calculate_progression_factors(experience_level, gender, age)[k]

Exceeds(k) == RatGT(RequiredRate(k), Bound(k))

Infeasible == \E k \in 1..3 : Exceeds(k)

Produced == pc \in {"makedirs", "generate_csv", "done"}

Written == pc = "done"

NothingComputed ==
    /\ weights = <<>>
    /\ body_fats = <<>>
    /\ muscles = <<>>

FilesUntouched ==
    /\ dirExists = fs0.dir
    /\ csvFile = fs0.file

-----------------------------------------------------------------------------
\* C1: when some metric's required daily rate exceeds its bound, the run never
\* reaches the output steps: it exits with status 1, no trajectory exists, the
\* output directory and the CSV file are as they were at the start.
C1_InfeasibleRunAborts ==
    (AllRead /\ Infeasible) =>
        /\ pc \in {"factors", "required", "validate", "exited"}
        /\ exitCode = IF pc = "exited" THEN 1 ELSE -1
        /\ NothingComputed
        /\ FilesUntouched

C1_Witness ==
    /\ AllRead
    /\ ~Exceeds(1) /\ ~Exceeds(2) /\ Exceeds(3)
    /\ pc = "exited"
    /\ exitCode = 1
    /\ fs0.file.exists

\* C2: in every run that produces a schedule the value of each trajectory at
\* day = duration is the configured final endpoint, and the last row written
\* shows the final endpoints to two decimals.
C2_LastValueIsFinal ==
    /\ Produced => \A k \in 1..3 : Trajectories[k][n_days] = Finals[k]
    /\ Written =>
         csvFile.rows[n_days + 1] =
            <<n_days, FormatFixed(w_final, 2), FormatFixed(bf_final, 2),
              FormatFixed(m_final, 2)>>

C2_Witness ==
    /\ Written
    /\ n_days = 3
    /\ \A k \in 1..3 : Finals[k] # Initials[k]
    /\ \A k \in 1..3 : Trajectories[k][n_days] = Finals[k]

\* C3: each trajectory has exactly duration values, and the table written has
\* a header and one row per day 1..duration in ascending order, row d holding
\* the d-th weight, body-fat and muscle values to two decimals.
C3_OneRowPerDay ==
    /\ Produced => \A k \in 1..3 : Len(Trajectories[k]) = n_days
    /\ Written =>
         /\ csvFile.exists
         /\ Len(csvFile.rows) = n_days + 1
         /\ csvFile.rows[1] = Headers
         /\ \A d \in 1..n_days :
              csvFile.rows[d + 1] =
                 <<d, FormatFixed(weights[d], 2), FormatFixed(body_fats[d], 2),
                   FormatFixed(muscles[d], 2)>>

C3_Witness ==
    /\ Written
    /\ n_days = 3
    /\ Len(csvFile.rows) = 4
    /\ csvFile.rows[2][3] # csvFile.rows[2][4]
    /\ csvFile.rows[3][2] # csvFile.rows[2][2]

\* the daily change the specification describes: magnitude |final - initial| /
\* duration, negative towards a lower final, positive towards a higher one
DirectedChange(k) ==
    IF RatLT(Finals[k], Initials[k]) THEN RatNeg(RequiredRate(k))
    ELSE IF RatLT(Initials[k], Finals[k]) THEN RequiredRate(k)
    ELSE Zero

\* C4: in a feasible run value(day) = initial + dailyChange * (day - 1) for
\* every day before the last, dailyChange having magnitude |final - initial| /
\* duration and the sign of the direction from initial to final.
C4_LinearBeforeLastDay ==
    Produced =>
        \A k \in 1..3 :
            /\ daily_change[k] = DirectedChange(k)
            /\ \A day \in 1..(n_days - 1) :
                 Trajectories[k][day] =
                    RatAdd(Initials[k], RatMulInt(DirectedChange(k), day - 1))

C4_Witness ==
    /\ Produced
    /\ n_days = 3
    /\ RatLT(w_final, w_init)
    /\ RatLT(m_init, m_final)
    /\ bf_final = bf_init
    /\ weights[2] = RatAdd(w_init, DirectedChange(1))
    /\ weights[2] # w_init

Rejection == stdout[1]

\* C5: the check rejects exactly when some metric's |required daily change| is
\* strictly greater than its bound; the metric reported is the first one that
\* exceeds, with its own rate and bound to four decimals.  The run of
\* duration 10, weight 80 -> 75, level 3, M, age 30 is rejected on weight with
\* 0.5000 against 0.0475.
C5_RejectsIffExceeds ==
    valid # "unset" =>
        /\ (valid = "False") <=> Infeasible
        /\ valid = "False" =>
             /\ Rejection.kind = "exceeds"
             /\ \E k \in 1..3 :
                  /\ Rejection.metric = MetricNames[k]
                  /\ Exceeds(k)
                  /\ \A j \in 1..(k - 1) : ~Exceeds(j)
                  /\ Rejection.required = FormatFixed(RequiredRate(k), 4)
                  /\ Rejection.allowed = FormatFixed(Bound(k), 4)
        /\ (/\ n_days = 10 /\ w_init = <<80, 1>> /\ w_final = <<75, 1>>
            /\ experience_level = 3 /\ gender = <<"M">> /\ age = 30) =>
             /\ valid = "False"
             /\ Rejection = [kind |-> "exceeds", metric |-> "weight",
                             required |-> [neg |-> FALSE, units |-> 5000],
                             allowed |-> [neg |-> FALSE, units |-> 475]]

C5_Witness ==
    /\ valid = "False"
    /\ n_days = 10 /\ w_init = <<80, 1>> /\ w_final = <<75, 1>>
    /\ experience_level = 3 /\ gender = <<"M">> /\ age = 30
    /\ Rejection.metric = "weight"
    /\ Rejection.required.units = 5000
    /\ Rejection.allowed.units = 475

\* the tables of the specification: hundredths per level, tenths per gender,
\* hundredths per age bracket, each bracket named by its lowest age
BaseHundredths == <<<<7, 14, 7>>, <<6, 13, 6>>, <<5, 12, 5>>, <<4, 10, 4>>>>

GenderTenths(g) == IF g = <<"M">> THEN 10 ELSE 9

BracketStarts == {0, 25, 35, 45, 55}

BracketOf(a) == CHOOSE b \in BracketStarts : b <= a /\ \A c \in BracketStarts : c <= a => c <= b

AgeHundredths(a) ==
    CASE BracketOf(a) = 0 -> 100
      [] BracketOf(a) = 25 -> 95
      [] BracketOf(a) = 35 -> 90
      [] BracketOf(a) = 45 -> 85
      [] BracketOf(a) = 55 -> 80

\* C6: for every level, gender and positive age the three bounds are the
\* level's base values times the gender multiplier times the multiplier of the
\* half-open age bracket holding the age; 25, 35, 45 and 55 start a bracket.
C6_FactorsFollowTables ==
    max_daily_change # <<>> =>
        /\ \A k \in 1..3 :
             max_daily_change[k] =
                Rat(BaseHundredths[experience_level][k] * GenderTenths(gender)
                        * AgeHundredths(age), 100000)
        /\ age \in {25, 35, 45, 55} => BracketOf(age) = age

C6_Witness ==
    /\ max_daily_change = <<Rat(4 * 9 * 85, 100000), Rat(10 * 9 * 85, 100000),
                            Rat(4 * 9 * 85, 100000)>>
    /\ experience_level = 4
    /\ gender = <<"F">>
    /\ age = 45

\* what each prompt accepts
FieldInvalid(i, text) ==
    CASE i = 1 -> ~ParseInt(text).ok \/ ParseInt(text).val < 1
      [] i \in 2..7 -> ~ParseFloat(text).ok
      [] i = 8 -> ~ParseInt(text).ok \/ ParseInt(text).val \notin {1, 2, 3, 4}
      [] i = 9 -> Upper(Strip(text)) \notin {<<"M">>, <<"F">>}
      [] i = 10 -> ~ParseInt(text).ok \/ ParseInt(text).val <= 0

\* C7: an invalid input ends the process with exit code 1 at that field: it is
\* the last text read, no rate or trajectory is computed, and the output
\* directory and file are as they were.
C7_InvalidInputExits ==
    \A i \in 1..Len(consumed) :
        FieldInvalid(i, consumed[i]) =>
            /\ i = Len(consumed)
            /\ Len(params) = i - 1
            /\ pc = "exited"
            /\ exitCode = 1
            /\ max_daily_change = <<>>
            /\ daily_change = <<>>
            /\ valid = "unset"
            /\ NothingComputed
            /\ FilesUntouched

C7_Witness ==
    /\ Len(consumed) = 10
    /\ FieldInvalid(10, consumed[10])
    /\ ParseInt(consumed[10]).ok
    /\ pc = "exited"
    /\ exitCode = 1
    /\ fs0.dir

\* C8 as stated: for every duration >= 1 the first value of each trajectory is
\* the initial endpoint and the last is the final endpoint.
C8_FirstIsInitialAlways ==
    Produced =>
        \A k \in 1..3 :
            /\ Trajectories[k][1] = Initials[k]
            /\ Trajectories[k][Len(Trajectories[k])] = Finals[k]

\* C8 amended: the last value of each trajectory is the final endpoint for
\* every duration >= 1; the first value is the initial endpoint when duration
\* >= 2, and with duration = 1 the only value is the final endpoint.
C8_FirstIsInitialFromTwoDays ==
    Produced =>
        \A k \in 1..3 :
            /\ Trajectories[k][Len(Trajectories[k])] = Finals[k]
            /\ n_days >= 2 => Trajectories[k][1] = Initials[k]
            /\ n_days = 1 => Trajectories[k] = <<Finals[k]>>

C8_Witness ==
    /\ Produced
    /\ n_days = 1
    /\ w_final # w_init
    /\ weights = <<w_final>>

\* C9: in every schedule written, |value(day + 1) - value(day)| for 1 <= day <
\* duration, the step into the last day included, does not exceed the bound
\* the feasibility check used for that metric.
C9_StepsWithinBound ==
    Written =>
        \A k \in 1..3 : \A day \in 1..(n_days - 1) :
            RatLE(RatAbs(RatSub(Trajectories[k][day + 1], Trajectories[k][day])),
                  max_daily_change[k])

Between(x, a, b) == (RatLE(a, x) /\ RatLE(x, b)) \/ (RatLE(b, x) /\ RatLE(x, a))

\* C10: every trajectory is monotonic from initial to final over days
\* 1..duration (non-increasing towards a lower final, non-decreasing towards a
\* higher one, constant when they are equal) and every value lies between the
\* two endpoints, these included.
C10_MonotonicBetweenEndpoints ==
    Produced =>
        \A k \in 1..3 :
            /\ \A day \in 1..n_days : Between(Trajectories[k][day], Initials[k], Finals[k])
            /\ \A day \in 1..(n_days - 1) :
                 /\ RatLT(Finals[k], Initials[k]) =>
                      RatLE(Trajectories[k][day + 1], Trajectories[k][day])
                 /\ RatLT(Initials[k], Finals[k]) =>
                      RatLE(Trajectories[k][day], Trajectories[k][day + 1])
                 /\ Finals[k] = Initials[k] =>
                      Trajectories[k][day + 1] = Trajectories[k][day]

C10_Witness ==
    /\ Produced
    /\ n_days = 3
    /\ RatLT(weights[3], weights[2]) /\ RatLT(weights[2], weights[1])
    /\ RatLT(muscles[1], muscles[2]) /\ RatLT(muscles[2], muscles[3])
    /\ body_fats[1] = body_fats[3]

====
